---- MODULE Spec2Model ----
(***************************************************************************)
(* Model of the multi-truck packing engine of cargo_planning               *)
(* (packing_heuristics.py, export_data_main.py).                           *)
(*                                                                         *)
(* Conventions.  Python lists and numpy rows are 0-based; the sequences    *)
(* here are 1-based, so corner k of the source is element k+1 (operator    *)
(* Cn) and column c of a box row is element c+1.  Truck "TRUCK-i" and box  *)
(* "box-k" are represented by the integers i and k.  The unit of length is *)
(* 100 cm, so that dim / 100 of volume() is the integer itself and every   *)
(* volume is a whole number of cubic metres, which the floats of the       *)
(* source hold exactly.                                                    *)
(***************************************************************************)
EXTENDS Integers, Sequences, FiniteSets, TLC

(***************************************************************************)
(* Bounds of the explored inputs.                                          *)
(***************************************************************************)
MaxBoxes == 3
MaxTrucks == 2
MaxRows == 2

TruckSizes == { <<2, 2, 1>>, <<2, 2, 2>> }
BoxDims == { <<1, 1, 1>>, <<2, 1, 1>>, <<1, 2, 1>> }
DestCodeSets == { {}, {1, 2} }
Thresholds == { 50, 100 }
LoadPatterns == { "Side", "Rear Loading", "Uniform Dist." }
Weights == { 5 }
\* dimensions and weights of the rows given to export_data alone
ExportDims == { <<1, 1, 1>>, <<2, 1, 1>>, <<1, 2, 1>>, <<1, 1, 2>> }
ExportWeights == { 5, 7 }
\* truck sizes of the runs that start from the raw table
MainTruckSizes == { <<2, 2, 1>> }
\* Box ID strings, in string order
BoxIds == << "R-1", "R-2" >>
\* destination names and codes of the caller's dest_to_dict
DestNames == << <<"P">>, <<"Q">> >>
\* destination strings of the raw table: two resolve (one after strip), one
\* does not
DestStrings == { <<"P">>, <<" ", "Q">>, <<"X">> }

(***************************************************************************)
(* Small helpers.                                                          *)
(***************************************************************************)
Abs(n) == IF n < 0 THEN 0 - n ELSE n
Max2(a, b) == IF a > b THEN a ELSE b
Min2(a, b) == IF a < b THEN a ELSE b
Cn(corners, k) == corners[k + 1]

RECURSIVE SumSeq(_)
SumSeq(s) == IF s = <<>> THEN 0 ELSE Head(s) + SumSeq(Tail(s))

RECURSIVE SelectIdx(_, _, _)
\* the elements of s whose (1-based) position is not in drop, in order
SelectIdx(s, drop, k) ==
    IF k > Len(s) THEN <<>>
    ELSE IF k \in drop THEN SelectIdx(s, drop, k + 1)
    ELSE <<s[k]>> \o SelectIdx(s, drop, k + 1)

\* ascending comparison of two 4-tuples
KeyLT4(a, b) ==
    \/ a[1] < b[1]
    \/ a[1] = b[1] /\ a[2] < b[2]
    \/ a[1] = b[1] /\ a[2] = b[2] /\ a[3] < b[3]
    \/ a[1] = b[1] /\ a[2] = b[2] /\ a[3] = b[3] /\ a[4] < b[4]

(***************************************************************************)
(* export_data: the grouped rows are sorted before they reach the engine.  *)
(* A grouped row is <<Length, Width, Height, Quantity, Weight,             *)
(* Destination, Stackable>> (the value lists of box_dict).                 *)
(***************************************************************************)
RECURSIVE LexGE(_, _)
\* descending lexicographic order on equal-length key tuples
LexGE(a, b) ==
    IF a = <<>> THEN TRUE
    ELSE IF Head(a) > Head(b) THEN TRUE
    ELSE IF Head(a) < Head(b) THEN FALSE
    ELSE LexGE(Tail(a), Tail(b))

\* variant: the columns of the Back / Rear Loading order for every pattern
sort_values_key_back(row, pattern) ==
    << 0 - row[7], row[2], row[3], row[6], row[1], row[5] >>

\* sort key of export_data, with the ascending Stackable column negated
sort_values_key(row, pattern) ==
    IF pattern = "Back" \/ pattern = "Rear Loading"
    THEN << 0 - row[7], row[2], row[3], row[6], row[1], row[5] >>
    ELSE << 0 - row[7], row[6], row[2], row[1], row[3], row[5] >>

\* g follows f in the sorted frame.  The rows of the model carry no Box ID,
\* so two groups differ in a sorted column and the order is strict.
RowOrder(f, g, pattern) ==
    /\ LexGE(sort_values_key(f, pattern), sort_values_key(g, pattern))
    /\ sort_values_key(f, pattern) # sort_values_key(g, pattern)

(***************************************************************************)
(* export_data on the raw table.  A raw row is <<Length, Width, Height,    *)
(* no_of_boxes, Weight, Destination, Stackable, Box ID>>.  A destination   *)
(* string is the sequence of its characters.  A mapped cell is <<v>> for   *)
(* the value v and <<>> for NaN.                                           *)
(***************************************************************************)
RECURSIVE lstrip(_)
lstrip(x) == IF x # <<>> /\ Head(x) = " " THEN lstrip(Tail(x)) ELSE x

RECURSIVE rstrip(_)
rstrip(x) ==
    IF x # <<>> /\ x[Len(x)] = " " THEN rstrip(SubSeq(x, 1, Len(x) - 1)) ELSE x

\* x.strip()
strip(x) == rstrip(lstrip(x))

\* Series.map(dict): the value of the key, NaN for a key the dict lacks
series_map(x, d) == IF x \in DOMAIN d THEN <<d[x]>> ELSE <<>>

\* {"Yes": 0, "No": 1}
stackable_dict == [x \in {"Yes", "No"} |-> IF x = "Yes" THEN 0 ELSE 1]

\* the two column assignments at the head of export_data
map_columns(row, dest_to_dict) ==
    [row EXCEPT ![7] = series_map(row[7], stackable_dict),
                ![6] = series_map(strip(row[6]), dest_to_dict)]

\* order of the Box ID strings
box_id_rank(id) == CHOOSE k \in 1..Len(BoxIds) : BoxIds[k] = id

\* groupby key (Stackable, Destination, Box ID, Weight) of a mapped row
group_key(row) == << row[7][1], row[6][1], box_id_rank(row[8]), row[5] >>

\* "mean" of a column over the rows of a group (the tables explored have
\* groups whose mean is a whole number)
mean(vals) == SumSeq(vals) \div Len(vals)

\* the aggregated row of one group:
\* <<Length, Width, Height, Quantity, Weight, Destination, Stackable, Box ID>>
agg_group(rows) ==
    << mean([k \in 1..Len(rows) |-> rows[k][1]]),
       mean([k \in 1..Len(rows) |-> rows[k][2]]),
       mean([k \in 1..Len(rows) |-> rows[k][3]]),
       SumSeq([k \in 1..Len(rows) |-> rows[k][4]]),
       rows[1][5], rows[1][6][1], rows[1][7][1], rows[1][8] >>

RECURSIVE SetToSeq(_)
SetToSeq(S) ==
    IF S = {} THEN <<>>
    ELSE LET x == CHOOSE x \in S : TRUE IN <<x>> \o SetToSeq(S \ {x})

\* groupby(...).agg(...): rows with a NaN key are dropped
groupby_agg(mapped) ==
    LET kept == SelectSeq(mapped, LAMBDA r : r[6] # <<>> /\ r[7] # <<>>)
        keys == { group_key(kept[k]) : k \in 1..Len(kept) }
    IN  { agg_group(SelectSeq(kept, LAMBDA r : group_key(r) = key)) : key \in keys }

\* groupby key of an aggregated row
agg_key(g) == << g[7], g[6], box_id_rank(g[8]), g[5] >>

\* f comes before g in the sorted frame: by the sort columns, and for equal
\* sort columns in the order groupby left them (the multi-column sort is
\* stable)
frame_before(f, g, pattern) ==
    \/ RowOrder(f, g, pattern)
    \/ /\ sort_values_key(f, pattern) = sort_values_key(g, pattern)
       /\ KeyLT4(agg_key(f), agg_key(g))

\* box_df_grouped after sort_values and reset_index
box_df_grouped(mapped, pattern) ==
    SortSeq(SetToSeq(groupby_agg(mapped)), LAMBDA f, g : frame_before(f, g, pattern))

(***************************************************************************)
(* Geometry primitives.                                                    *)
(***************************************************************************)
volume(dim) == dim[1] * dim[2] * dim[3]

create_box(local_origin, box_dims) ==
    LET c_x == local_origin[1]
        c_y == local_origin[2]
        c_z == local_origin[3]
        l == box_dims[1]
        b == box_dims[2]
        h == box_dims[3]
    IN  << <<c_x, c_y, c_z>>,
           <<c_x + l, c_y, c_z>>,
           <<c_x, c_y + b, c_z>>,
           <<c_x + l, c_y + b, c_z>>,
           <<c_x, c_y, c_z + h>>,
           <<c_x + l, c_y, c_z + h>>,
           <<c_x, c_y + b, c_z + h>>,
           <<c_x + l, c_y + b, c_z + h>> >>

(***************************************************************************)
(* Constraint predicates.  A packed item is the list                       *)
(* [corners, box type, base area, destination, weight] of the source,      *)
(* kept as a record; packed_items and non_stackables are dictionaries      *)
(* keyed by the number k of the name "box-k".                              *)
(***************************************************************************)
\* variant: only tests whether corner 0 of the new box is inside a packed box
rec_intersect_check_corner0(packed_items, temp_box_corners) ==
    \E pk_key \in DOMAIN packed_items :
        /\ Cn(packed_items[pk_key].corners, 7)[1] > Cn(temp_box_corners, 0)[1]
        /\ Cn(packed_items[pk_key].corners, 7)[2] > Cn(temp_box_corners, 0)[2]
        /\ Cn(packed_items[pk_key].corners, 7)[3] > Cn(temp_box_corners, 0)[3]
        /\ Cn(packed_items[pk_key].corners, 0)[1] <= Cn(temp_box_corners, 0)[1]
        /\ Cn(packed_items[pk_key].corners, 0)[2] <= Cn(temp_box_corners, 0)[2]
        /\ Cn(packed_items[pk_key].corners, 0)[3] <= Cn(temp_box_corners, 0)[3]

rec_intersect_check(packed_items, temp_box_corners) ==
    \E pk_key \in DOMAIN packed_items :
        /\ Cn(packed_items[pk_key].corners, 7)[1] > Cn(temp_box_corners, 0)[1]
        /\ Cn(packed_items[pk_key].corners, 7)[2] > Cn(temp_box_corners, 0)[2]
        /\ Cn(packed_items[pk_key].corners, 7)[3] > Cn(temp_box_corners, 0)[3]
        /\ Cn(packed_items[pk_key].corners, 0)[1] < Cn(temp_box_corners, 7)[1]
        /\ Cn(packed_items[pk_key].corners, 0)[2] < Cn(temp_box_corners, 7)[2]
        /\ Cn(packed_items[pk_key].corners, 0)[3] < Cn(temp_box_corners, 7)[3]

\* 8 * np.mean(corners, axis=0)[axis]: the sum of one coordinate over the corners
CornerSum(corners, axis) == SumSeq([k \in 1..8 |-> corners[k][axis]])

xy_intersect(temp_box_corners, non_stackables) ==
    LET non_stackables_2 ==
            { u \in DOMAIN non_stackables :
                Cn(non_stackables[u].corners, 4)[3] = Cn(temp_box_corners, 0)[3] }
        l1 == Abs(Cn(temp_box_corners, 1)[1] - Cn(temp_box_corners, 0)[1])
        b1 == Abs(Cn(temp_box_corners, 2)[2] - Cn(temp_box_corners, 0)[2])
    IN  \E ns_box_key \in non_stackables_2 :
            LET ns == non_stackables[ns_box_key].corners
                l2 == Abs(Cn(ns, 1)[1] - Cn(ns, 0)[1])
                b2 == Abs(Cn(ns, 2)[2] - Cn(ns, 0)[2])
                \* (l1 + l2) / 2 > c_to_c[0], both sides multiplied by 8
            IN  /\ 4 * (l1 + l2) > Abs(CornerSum(temp_box_corners, 1) - CornerSum(ns, 1))
                /\ 4 * (b1 + b2) > Abs(CornerSum(temp_box_corners, 2) - CornerSum(ns, 2))

\* supported area of the base contributed by one packed box
base_overlap(temp_box_corners, pk) ==
    LET x1 == Cn(temp_box_corners, 0)[1]
        x2 == Cn(temp_box_corners, 3)[1]
        y1 == Cn(temp_box_corners, 0)[2]
        y2 == Cn(temp_box_corners, 3)[2]
        x3 == Cn(pk, 0)[1]
        x4 == Cn(pk, 3)[1]
        y3 == Cn(pk, 0)[2]
        y4 == Cn(pk, 3)[2]
        xmax1 == Max2(x1, x2)
        xmax2 == Max2(x3, x4)
        xmin1 == Min2(x1, x2)
        xmin2 == Min2(x3, x4)
        ymax1 == Max2(y1, y2)
        ymax2 == Max2(y3, y4)
        ymin1 == Min2(y1, y2)
        ymin2 == Min2(y3, y4)
    IN  IF xmax1 > xmin2 /\ xmax2 > xmin1 /\ ymax1 > ymin2 /\ ymax2 > ymin1
        THEN (Min2(xmax1, xmax2) - Max2(xmin1, xmin2))
               * (Min2(ymax1, ymax2) - Max2(ymin1, ymin2))
        ELSE 0

\* the loop accumulating tot_base_area over the boxes of packed_same_level
RECURSIVE sum_overlaps(_, _, _)
sum_overlaps(temp_box_corners, packed_boxes, keys) ==
    IF keys = {} THEN 0
    ELSE LET u == CHOOSE u \in keys : TRUE
         IN  base_overlap(temp_box_corners, packed_boxes[u].corners)
               + sum_overlaps(temp_box_corners, packed_boxes, keys \ {u})

\* The percentage is the fraction num/den, returned as <<num, den>>:
\* 100.0 is <<100, 1>> and tot_base_area * 100 / act_base_area is
\* <<tot_base_area * 100, act_base_area>>.
base_area(temp_box_corners, packed_boxes) ==
    IF Cn(temp_box_corners, 0)[3] = 0 THEN <<100, 1>>
    ELSE
      LET packed_same_level ==
              { u \in DOMAIN packed_boxes :
                  Cn(packed_boxes[u].corners, 4)[3] = Cn(temp_box_corners, 0)[3] }
          tot_base_area == sum_overlaps(temp_box_corners, packed_boxes, packed_same_level)
          act_base_area ==
              Abs(Cn(temp_box_corners, 0)[1] - Cn(temp_box_corners, 3)[1])
                * Abs(Cn(temp_box_corners, 0)[2] - Cn(temp_box_corners, 3)[2])
      IN  <<tot_base_area * 100, act_base_area>>

\* variant: the percentage is compared with 0 instead of the threshold
PctGE_no_threshold(pct, thr) == pct[1] >= 0

\* base_area(...) >= self.base_area_thr on the fraction
PctGE(pct, thr) == pct[1] >= thr * pct[2]

\* variant: the filter keeps the boxes of the same destination
is_unloadable_same_dest(packed_boxes, temp_box_corners, dest) ==
    LET packed_boxes_mod == { k \in DOMAIN packed_boxes : packed_boxes[k].dest = dest }
    IN  ~ \E pk_key \in packed_boxes_mod :
            /\ Cn(packed_boxes[pk_key].corners, 0)[2] >= Cn(temp_box_corners, 7)[2]
            /\ Cn(packed_boxes[pk_key].corners, 7)[1] > Cn(temp_box_corners, 0)[1]
            /\ Cn(packed_boxes[pk_key].corners, 7)[3] > Cn(temp_box_corners, 0)[3]

\* variant: strict comparison on y, a box touching the rear face does not block
is_unloadable_strict_y(packed_boxes, temp_box_corners, dest) ==
    LET packed_boxes_mod == { k \in DOMAIN packed_boxes : packed_boxes[k].dest # dest }
    IN  ~ \E pk_key \in packed_boxes_mod :
            /\ Cn(packed_boxes[pk_key].corners, 0)[2] > Cn(temp_box_corners, 7)[2]
            /\ Cn(packed_boxes[pk_key].corners, 7)[1] > Cn(temp_box_corners, 0)[1]
            /\ Cn(packed_boxes[pk_key].corners, 7)[3] > Cn(temp_box_corners, 0)[3]

is_unloadable(packed_boxes, temp_box_corners, dest) ==
    LET packed_boxes_mod == { k \in DOMAIN packed_boxes : packed_boxes[k].dest # dest }
    IN  ~ \E pk_key \in packed_boxes_mod :
            /\ Cn(packed_boxes[pk_key].corners, 0)[2] >= Cn(temp_box_corners, 7)[2]
            /\ Cn(packed_boxes[pk_key].corners, 7)[1] > Cn(temp_box_corners, 0)[1]
            /\ Cn(packed_boxes[pk_key].corners, 7)[3] > Cn(temp_box_corners, 0)[3]

\* variant: the height of the truck is not compared
is_fit_inside_no_height(temp_box_corners, truck_size) ==
    ~ \/ Cn(temp_box_corners, 7)[1] > truck_size[1]
      \/ Cn(temp_box_corners, 7)[2] > truck_size[2]

is_fit_inside(temp_box_corners, truck_size) ==
    ~ \/ Cn(temp_box_corners, 7)[1] > truck_size[1]
      \/ Cn(temp_box_corners, 7)[2] > truck_size[2]
      \/ Cn(temp_box_corners, 7)[3] > truck_size[3]

(***************************************************************************)
(* Pivot ordering (the sort of all_pvts at the head of every box           *)
(* attempt).  Every key is a permutation of (x, y, z), so two pivots with  *)
(* equal keys are equal points and the stability of list.sort cannot be    *)
(* observed: the sorted list is the list ordered by the key.               *)
(***************************************************************************)
\* the lambda keys; order names the coordinates of the key, 1 = x, 2 = y, 3 = z
pvt_key(x, order) == << x[order[1]], x[order[2]], x[order[3]] >>

\* tuple comparison of two keys
KeyLT(a, b) ==
    \/ a[1] < b[1]
    \/ a[1] = b[1] /\ a[2] < b[2]
    \/ a[1] = b[1] /\ a[2] = b[2] /\ a[3] < b[3]

\* lst.sort(key=...)
SortByKey(lst, order) ==
    SortSeq(lst, LAMBDA a, b : KeyLT(pvt_key(a, order), pvt_key(b, order)))

\* variant: ground pivots before aerial pivots for every pattern
sort_pvts_ground_first(all_pvts, load_pattern) ==
    LET srt_grd == SelectSeq(all_pvts, LAMBDA x : x[3] = 0)
        srt_abv == SelectSeq(all_pvts, LAMBDA x : x[3] # 0)
    IN  IF load_pattern = "Back" \/ load_pattern = "Rear Loading"
        THEN SortByKey(srt_grd, <<1, 3, 2>>) \o SortByKey(srt_abv, <<3, 1, 2>>)
        ELSE SortByKey(srt_grd, <<2, 1, 3>>) \o SortByKey(srt_abv, <<3, 2, 1>>)

sort_pvts(all_pvts, load_pattern) ==
    LET srt_grd == SelectSeq(all_pvts, LAMBDA x : x[3] = 0)
        srt_abv == SelectSeq(all_pvts, LAMBDA x : x[3] # 0)
    IN  IF load_pattern = "Side" \/ load_pattern = "Default"
        THEN SortByKey(srt_abv, <<3, 2, 1>>) \o SortByKey(srt_grd, <<2, 1, 3>>)
        ELSE IF load_pattern = "Back" \/ load_pattern = "Rear Loading"
        THEN SortByKey(srt_abv, <<3, 1, 2>>) \o SortByKey(srt_grd, <<1, 3, 2>>)
        ELSE IF load_pattern = "Uniform Dist."
        THEN SortByKey(srt_grd, <<2, 1, 3>>) \o SortByKey(srt_abv, <<3, 2, 1>>)
        ELSE all_pvts

(***************************************************************************)
(* create_box_list: one row <<l, w, h, box type, weight, destination,      *)
(* stackable>> per physical box, grouped by destination code.              *)
(***************************************************************************)
RECURSIVE explode_rows(_, _)
explode_rows(box_vals_list, i) ==
    IF i > Len(box_vals_list) THEN <<>>
    ELSE LET box_vals == box_vals_list[i]
             n_boxes == box_vals[4]
             row == [box_vals EXCEPT ![4] = i]
         IN  [k \in 1..n_boxes |-> row] \o explode_rows(box_vals_list, i + 1)

create_box_list(box_vals_list, dest_codes) ==
    LET rows == explode_rows(box_vals_list, 1)
    IN  [key \in dest_codes |-> SelectSeq(rows, LAMBDA r : r[6] = key)]

\* box_vals[3] = i : the quantity column of the caller's table is overwritten
box_dict_after_create(box_vals_list) ==
    [i \in 1..Len(box_vals_list) |-> [box_vals_list[i] EXCEPT ![4] = i]]

\* sum([len(v) for v in all_box_dict.values()])
RECURSIVE count_boxes(_, _)
count_boxes(boxes_dict, keys) ==
    IF keys = {} THEN 0
    ELSE LET k == CHOOSE k \in keys : TRUE
         IN  Len(boxes_dict[k]) + count_boxes(boxes_dict, keys \ {k})

\* variant: ascending order of the destination codes
RECURSIVE sorted_ascending(_)
sorted_ascending(keys) ==
    IF keys = {} THEN <<>>
    ELSE LET m == CHOOSE m \in keys : \A k \in keys : m <= k
         IN  <<m>> \o sorted_ascending(keys \ {m})

\* sorted(all_boxes_dict.keys(), reverse=True)
RECURSIVE sorted_reverse(_)
sorted_reverse(keys) ==
    IF keys = {} THEN <<>>
    ELSE LET m == CHOOSE m \in keys : \A k \in keys : m >= k
         IN  <<m>> \o sorted_reverse(keys \ {m})

\* make_dict_from_list: number of packed boxes per box type
make_dict_from_list(lst) ==
    LET types == { lst[k] : k \in 1..Len(lst) }
    IN  [t \in types |-> Cardinality({ k \in 1..Len(lst) : lst[k] = t })]

(***************************************************************************)
(* Inputs explored: grouped rows in the order export_data leaves them.     *)
(***************************************************************************)
GroupRows(dest_codes) ==
    { <<d[1], d[2], d[3], q, w, dest, st>> :
        d \in BoxDims, q \in 1..MaxBoxes, w \in Weights, dest \in dest_codes, st \in {0, 1} }

TotalQty(rows) == SumSeq([k \in 1..Len(rows) |-> rows[k][4]])

ExtendSorted(S, dest_codes, pattern) ==
    { Append(s, r) : <<s, r>> \in
        { sr \in S \X GroupRows(dest_codes) :
            /\ TotalQty(sr[1]) + sr[2][4] <= MaxBoxes
            /\ (sr[1] = <<>> \/ RowOrder(sr[1][Len(sr[1])], sr[2], pattern)) } }

RECURSIVE SortedBoxDicts(_, _, _)
SortedBoxDicts(n, dest_codes, pattern) ==
    IF n = 0 THEN { <<>> }
    ELSE LET P == SortedBoxDicts(n - 1, dest_codes, pattern)
         IN  P \cup ExtendSorted(P, dest_codes, pattern)

TruckLists == UNION { [1..n -> TruckSizes] : n \in 1..MaxTrucks }

\* the caller's dest_to_dict for a set of destination codes
dest_map(codes) ==
    [n \in { DestNames[c] : c \in codes } |-> CHOOSE c \in codes : DestNames[c] = n]

\* raw rows and raw tables (the Excel sheet), rows in any order
RawRows(dims, weights) ==
    { <<d[1], d[2], d[3], q, w, dest, st, BoxIds[id]>> :
        d \in dims, q \in 1..MaxBoxes, w \in weights, dest \in DestStrings,
        st \in {"Yes", "No"}, id \in 1..Len(BoxIds) }

RawQty(table) == SumSeq([k \in 1..Len(table) |-> table[k][4]])

RECURSIVE RawTables(_, _)
RawTables(n, rows) ==
    IF n = 0 THEN { <<>> }
    ELSE LET P == RawTables(n - 1, rows)
         IN  P \cup { Append(sr[1], sr[2]) :
                        sr \in { x \in P \X rows : RawQty(x[1]) + x[2][4] <= MaxBoxes } }

\* the rows of one group have the same dimensions, so that the mean of the
\* group is a whole number
WholeMeans(table) ==
    \A j, k \in 1..Len(table) :
        ( /\ strip(table[j][6]) = strip(table[k][6])
          /\ table[j][7] = table[k][7]
          /\ table[j][8] = table[k][8]
          /\ table[j][5] = table[k][5] )
            => SubSeq(table[j], 1, 3) = SubSeq(table[k], 1, 3)

(***************************************************************************)
(* State.                                                                  *)
(*   truck_size_dict, box_dict, dest_codes, base_area_thr, load_pattern :  *)
(*       the fields of PackingHeuristic (dest_codes are the values of      *)
(*       dest_to_dist);                                                    *)
(*   all_boxes_dict : the one dictionary object that create_box_list       *)
(*       returns; init_unpacked_items, the parameter of place_the_box,     *)
(*       un_pkd and every per_truck_unpacked entry are references to it;   *)
(*   n_init_unpacked_items : the count taken in main_func;                 *)
(*   i, pkd, res_vol, per_truck_packed, per_truck_unpacked : locals of     *)
(*       packing (pkd_bound is FALSE while pkd and res_vol are unassigned);*)
(*   packed_items .. used_unp_indx : locals of place_the_box;              *)
(*   truck_input : history of the dictionary each place_the_box call       *)
(*       received, by truck;                                               *)
(*   box_types : the box table as main_func handed it to the constructor,  *)
(*       by value (history);                                               *)
(*   dest_to_dict : the caller's map from destination name to code         *)
(*       (dest_to_dist of PackingHeuristic; dest_codes are its values);    *)
(*   box_to_truck : the raw table (df1 of main_func), which export_data    *)
(*       maps in place;                                                    *)
(*   f_to_r_dict : Box ID of every F-code;                                 *)
(*   truck_to_js, dest_colors, truck_size_txt, unpacked_txt : contents of  *)
(*       the files of ui_input/ (<<>> while unwritten);                    *)
(*   run : number of the invocation of the engine in this process;         *)
(*   first_result : what the first invocation produced (history);          *)
(*   pc : position of the run.                                             *)
(***************************************************************************)
VARIABLES truck_size_dict, box_dict, dest_codes, base_area_thr, load_pattern,
          all_boxes_dict, n_init_unpacked_items,
          i, pkd, res_vol, pkd_bound, per_truck_packed, per_truck_unpacked,
          packed_items, non_stackables, all_pvts, total_box_vol,
          dest_pos, unp_indx, used_unp_indx,
          truck_input, pc,
          box_types, run, first_result,
          dest_to_dict, box_to_truck, f_to_r_dict,
          truck_to_js, dest_colors, truck_size_txt, unpacked_txt

inputs == <<truck_size_dict, dest_codes, base_area_thr, load_pattern>>
packing_locals == <<i, pkd, res_vol, pkd_bound, per_truck_packed, per_truck_unpacked>>
place_locals == <<packed_items, non_stackables, all_pvts, total_box_vol,
                  dest_pos, unp_indx, used_unp_indx>>
outer == <<box_types, run, first_result, dest_to_dict, box_to_truck, f_to_r_dict,
           truck_to_js, dest_colors, truck_size_txt, unpacked_txt>>
vars == <<truck_size_dict, box_dict, dest_codes, base_area_thr, load_pattern,
          all_boxes_dict, n_init_unpacked_items,
          i, pkd, res_vol, pkd_bound, per_truck_packed, per_truck_unpacked,
          packed_items, non_stackables, all_pvts, total_box_vol,
          dest_pos, unp_indx, used_unp_indx,
          truck_input, pc, outer>>

Init ==
    /\ truck_size_dict \in TruckLists
    /\ dest_codes \in DestCodeSets
    /\ base_area_thr \in Thresholds
    /\ load_pattern \in LoadPatterns
    /\ box_dict \in SortedBoxDicts(MaxBoxes, dest_codes, load_pattern)
    /\ box_types = box_dict
    /\ run = 1
    /\ first_result = <<>>
    /\ dest_to_dict = dest_map(dest_codes)
    /\ box_to_truck = <<>>
    /\ f_to_r_dict = <<>>
    /\ truck_to_js = <<>>
    /\ dest_colors = <<>>
    /\ truck_size_txt = <<>>
    /\ unpacked_txt = <<>>
    /\ all_boxes_dict = <<>>
    /\ n_init_unpacked_items = 0
    /\ i = 1
    /\ pkd = <<>>
    /\ res_vol = 0
    /\ pkd_bound = FALSE
    /\ per_truck_packed = <<>>
    /\ per_truck_unpacked = <<>>
    /\ packed_items = <<>>
    /\ non_stackables = <<>>
    /\ all_pvts = <<>>
    /\ total_box_vol = 0
    /\ dest_pos = 1
    /\ unp_indx = 1
    /\ used_unp_indx = <<>>
    /\ truck_input = <<>>
    /\ pc = "create"

(***************************************************************************)
(* main_func from the raw table: export_data, the constructor (always with *)
(* the threshold 100), then the steps below.                               *)
(***************************************************************************)
InitFromTable(trucks, dest_code_sets, tables) ==
    /\ truck_size_dict \in trucks
    /\ dest_codes \in dest_code_sets
    /\ dest_to_dict = dest_map(dest_codes)
    /\ base_area_thr = 100
    /\ load_pattern \in LoadPatterns
    /\ box_to_truck \in { t \in tables : WholeMeans(t) }
    /\ box_dict = <<>>
    /\ box_types = <<>>
    /\ f_to_r_dict = <<>>
    /\ all_boxes_dict = <<>>
    /\ n_init_unpacked_items = 0
    /\ i = 1
    /\ pkd = <<>>
    /\ res_vol = 0
    /\ pkd_bound = FALSE
    /\ per_truck_packed = <<>>
    /\ per_truck_unpacked = <<>>
    /\ packed_items = <<>>
    /\ non_stackables = <<>>
    /\ all_pvts = <<>>
    /\ total_box_vol = 0
    /\ dest_pos = 1
    /\ unp_indx = 1
    /\ used_unp_indx = <<>>
    /\ truck_input = <<>>
    /\ run = 1
    /\ first_result = <<>>
    /\ truck_to_js = <<>>
    /\ dest_colors = <<>>
    /\ truck_size_txt = <<>>
    /\ unpacked_txt = <<>>
    /\ pc = "export"

InitMain ==
    InitFromTable(UNION { [1..n -> MainTruckSizes] : n \in 1..MaxTrucks },
                  DestCodeSets,
                  RawTables(MaxRows, RawRows(BoxDims, Weights)))

\* export_data and create_box_list alone, on tables with more kinds of rows
InitExport ==
    InitFromTable({ << <<2, 2, 1>> >> }, { {1, 2} },
                  RawTables(MaxRows, RawRows(ExportDims, ExportWeights)))

\* export_data: maps the Stackable and Destination columns of the caller's
\* table, groups, sorts and numbers the groups F-1, F-2, ...
ExportData ==
    /\ pc = "export"
    /\ box_to_truck' =
           [k \in 1..Len(box_to_truck) |-> map_columns(box_to_truck[k], dest_to_dict)]
    /\ \E grouped \in {box_df_grouped(box_to_truck', load_pattern)} :
          /\ box_dict' = [k \in 1..Len(grouped) |-> SubSeq(grouped[k], 1, 7)]
          /\ f_to_r_dict' = [k \in 1..Len(grouped) |-> <<grouped[k][8]>>]
    /\ box_types' = box_dict'
    /\ pc' = "create"
    /\ UNCHANGED <<inputs, dest_to_dict, all_boxes_dict, n_init_unpacked_items,
                   packing_locals, place_locals, truck_input, run, first_result,
                   truck_to_js, dest_colors, truck_size_txt, unpacked_txt>>

(***************************************************************************)
(* main_func: create_box_list and the count of the supplied boxes.         *)
(***************************************************************************)
CreateBoxList ==
    /\ pc = "create"
    /\ all_boxes_dict' = create_box_list(box_dict, dest_codes)
    /\ box_dict' = box_dict_after_create(box_dict)
    /\ n_init_unpacked_items' = count_boxes(all_boxes_dict', dest_codes)
    /\ pc' = "truck"
    /\ UNCHANGED <<inputs, outer, packing_locals, place_locals, truck_input>>

(***************************************************************************)
(* place_the_box: one step per box attempt, per finished destination.      *)
(***************************************************************************)
truck_size == truck_size_dict[i]
total_truck_vol == volume(truck_size)
dest_keys == sorted_reverse(DOMAIN all_boxes_dict)
dest_key == dest_keys[dest_pos]
unpacked_items == all_boxes_dict[dest_key]
unp_box == unpacked_items[unp_indx]
unp_dims == SubSeq(unp_box, 1, 3)
\* variant: the volume placed so far is left out
temp_total_box_vol_box_only == volume(unp_dims)

temp_total_box_vol == total_box_vol + volume(unp_dims)

\* the constraint checks of one pivot, in the order of the source
can_place(pvt, dims, this_dest, packed, non_stk, tsize, thr) ==
    LET unp_box_corners == create_box(pvt, dims)
    IN  /\ is_fit_inside(unp_box_corners, tsize)
        /\ is_unloadable(packed, unp_box_corners, this_dest)
        /\ ~ xy_intersect(unp_box_corners, non_stk)
        /\ ~ rec_intersect_check(packed, unp_box_corners)
        /\ PctGE(base_area(unp_box_corners, packed), thr)

\* "box-{len(d)+1}"
next_box_name(d) == Cardinality(DOMAIN d) + 1

\* variant: the used pivot stays in the list
update_pvts_keep_used(pvts, corners, pvt) ==
    LET ext == pvts \o Tail(corners)
        y_max == CHOOSE y \in { ext[k][2] : k \in 1..Len(ext) } :
                   \A k \in 1..Len(ext) : ext[k][2] <= y
    IN  IF \E k \in 1..Len(ext) : ext[k] = <<0, y_max, 0>>
        THEN ext
        ELSE Append(ext, <<0, y_max, 0>>)

\* variant: the synthetic pivot is appended whether or not it is in the list
update_pvts_always_append(pvts, corners, pvt) ==
    LET ext == pvts \o Tail(corners)
        i_1 == CHOOSE k \in 1..Len(ext) :
                   ext[k] = pvt /\ \A j \in 1..(k - 1) : ext[j] # pvt
        del == SubSeq(ext, 1, i_1 - 1) \o SubSeq(ext, i_1 + 1, Len(ext))
        y_max == CHOOSE y \in { del[k][2] : k \in 1..Len(del) } :
                   \A k \in 1..Len(del) : del[k][2] <= y
    IN  Append(del, <<0, y_max, 0>>)

\* the pivot list after a box with these corners was committed at pvt
update_pvts(pvts, corners, pvt) ==
    LET ext == pvts \o Tail(corners)
        i_1 == CHOOSE k \in 1..Len(ext) :
                   ext[k] = pvt /\ \A j \in 1..(k - 1) : ext[j] # pvt
        del == SubSeq(ext, 1, i_1 - 1) \o SubSeq(ext, i_1 + 1, Len(ext))
        y_max == CHOOSE y \in { del[k][2] : k \in 1..Len(del) } :
                   \A k \in 1..Len(del) : del[k][2] <= y
    IN  IF \E k \in 1..Len(del) : del[k] = <<0, y_max, 0>>
        THEN del
        ELSE Append(del, <<0, y_max, 0>>)

\* variant: the placed rows are not taken out
remove_used_keep_all(items, used) == items

\* all_boxes_dict[dest_key] = the rows whose index is not in used_unp_indx
remove_used(items, used) == SelectIdx(items, { used[k] : k \in 1..Len(used) }, 1)

\* for pvt in all_pvts: the position of the first pivot that passes the
\* checks, 0 when the loop ends without a break
RECURSIVE first_valid(_, _, _, _, _, _, _, _)
first_valid(pvts, k, dims, this_dest, packed, non_stk, tsize, thr) ==
    IF k > Len(pvts) THEN 0
    ELSE IF can_place(pvts[k], dims, this_dest, packed, non_stk, tsize, thr) THEN k
    ELSE first_valid(pvts, k + 1, dims, this_dest, packed, non_stk, tsize, thr)

InBoxLoop == pc = "box" /\ dest_pos <= Len(dest_keys) /\ unp_indx <= Len(unpacked_items)

\* the box would take the packed volume over the truck volume: break
VolumeBreak ==
    /\ InBoxLoop
    /\ total_truck_vol < temp_total_box_vol
    /\ pc' = "enddest"
    /\ UNCHANGED <<inputs, outer, box_dict, all_boxes_dict, n_init_unpacked_items,
                   packing_locals, place_locals, truck_input>>

\* the first pivot of the sorted list that passes every check takes the box
PlaceBox ==
    /\ InBoxLoop
    /\ ~ (total_truck_vol < temp_total_box_vol)
    /\ \E box \in {unp_box} :
       \E sorted_pvts \in {sort_pvts(all_pvts, load_pattern)} :
       \E k \in {first_valid(sorted_pvts, 1, SubSeq(box, 1, 3), box[6], packed_items,
                             non_stackables, truck_size, base_area_thr)} :
         /\ k # 0
         /\ \E unp_box_corners \in {create_box(sorted_pvts[k], SubSeq(box, 1, 3))} :
            \E item \in {[corners |-> unp_box_corners,
                          type |-> box[4],
                          base |-> base_area(unp_box_corners, packed_items),
                          dest |-> box[6],
                          weight |-> box[5]]} :
              /\ packed_items' = (next_box_name(packed_items) :> item) @@ packed_items
              /\ non_stackables' =
                     IF box[7] = 1
                     THEN (next_box_name(non_stackables) :> item) @@ non_stackables
                     ELSE non_stackables
              /\ all_pvts' = update_pvts(sorted_pvts, unp_box_corners, sorted_pvts[k])
    /\ used_unp_indx' = Append(used_unp_indx, unp_indx)
    /\ total_box_vol' = temp_total_box_vol
    /\ unp_indx' = unp_indx + 1
    /\ UNCHANGED <<inputs, outer, box_dict, all_boxes_dict, n_init_unpacked_items,
                   packing_locals, dest_pos, truck_input, pc>>

\* no pivot passes: the box stays unpacked (the pivot list stays sorted)
SkipBox ==
    /\ InBoxLoop
    /\ ~ (total_truck_vol < temp_total_box_vol)
    /\ \E box \in {unp_box} :
       \E sorted_pvts \in {sort_pvts(all_pvts, load_pattern)} :
         /\ first_valid(sorted_pvts, 1, SubSeq(box, 1, 3), box[6], packed_items,
                        non_stackables, truck_size, base_area_thr) = 0
         /\ all_pvts' = sorted_pvts
    /\ unp_indx' = unp_indx + 1
    /\ UNCHANGED <<inputs, outer, box_dict, all_boxes_dict, n_init_unpacked_items,
                   packing_locals, packed_items, non_stackables, total_box_vol,
                   dest_pos, used_unp_indx, truck_input, pc>>

\* end of a destination: the placed rows leave the dictionary, which every
\* per_truck_unpacked entry refers to
EndDest ==
    /\ \/ pc = "enddest"
       \/ pc = "box" /\ dest_pos <= Len(dest_keys) /\ unp_indx > Len(unpacked_items)
    /\ all_boxes_dict' =
           [all_boxes_dict EXCEPT ![dest_key] = remove_used(unpacked_items, used_unp_indx)]
    /\ per_truck_unpacked' = [t \in DOMAIN per_truck_unpacked |-> all_boxes_dict']
    /\ dest_pos' = dest_pos + 1
    /\ unp_indx' = 1
    /\ used_unp_indx' = <<>>
    /\ pc' = "box"
    /\ UNCHANGED <<inputs, outer, box_dict, n_init_unpacked_items,
                   i, pkd, res_vol, pkd_bound, per_truck_packed,
                   packed_items, non_stackables, all_pvts, total_box_vol, truck_input>>

(***************************************************************************)
(* packing: the loop over the trucks.                                      *)
(***************************************************************************)
\* per_truck_packed[truck_name] = [pkd, make_dict_from_list(...), res_vol]
truck_record(p, r) ==
    [pkd |-> p,
     types |-> make_dict_from_list([x \in 1..Cardinality(DOMAIN p) |-> p[x].type]),
     res_vol |-> r]

\* variant: the pivot list is kept from one call of place_the_box to the next
initial_pvts_kept == IF all_pvts = <<>> THEN << <<0, 0, 0>> >> ELSE all_pvts

\* all_pvts = [[0, 0, 0]]
initial_pvts == << <<0, 0, 0>> >>

\* the call of place_the_box for truck i, up to the first destination
StartTruck ==
    /\ pc = "truck"
    /\ i <= Len(truck_size_dict)
    /\ IF i = 1 THEN Cardinality(DOMAIN all_boxes_dict) # 0
                ELSE pkd_bound \/ Cardinality(DOMAIN per_truck_unpacked[i - 1]) # 0
    /\ IF i > 1 /\ Cardinality(DOMAIN per_truck_unpacked[i - 1]) = 0
       THEN \* "No more boxes left to pack": pkd, un_pkd, res_vol keep their values
            /\ per_truck_packed' = (i :> truck_record(pkd, res_vol)) @@ per_truck_packed
            /\ per_truck_unpacked' =
                   [t \in DOMAIN per_truck_unpacked \cup {i} |-> all_boxes_dict]
            /\ i' = i + 1
            /\ UNCHANGED <<place_locals, truck_input, pc>>
       ELSE /\ packed_items' = <<>>
            /\ non_stackables' = <<>>
            /\ all_pvts' = initial_pvts
            /\ total_box_vol' = 0
            /\ dest_pos' = 1
            /\ unp_indx' = 1
            /\ used_unp_indx' = <<>>
            /\ truck_input' = (i :> all_boxes_dict) @@ truck_input
            /\ pc' = "box"
            /\ UNCHANGED <<i, per_truck_packed, per_truck_unpacked>>
    /\ UNCHANGED <<inputs, outer, box_dict, all_boxes_dict, n_init_unpacked_items,
                   pkd, res_vol, pkd_bound>>

\* place_the_box returned "Invalid box quantity" for the first truck: the
\* CustomException is caught and logged, then per_truck_packed[truck_name] =
\* [pkd, ...] reads pkd, which was never assigned: UnboundLocalError
PackingRaises ==
    /\ pc = "truck"
    /\ i <= Len(truck_size_dict)
    /\ i = 1
    /\ Cardinality(DOMAIN all_boxes_dict) = 0
    /\ ~ pkd_bound
    /\ truck_input' = (i :> all_boxes_dict) @@ truck_input
    /\ pc' = "raised"
    /\ UNCHANGED <<inputs, outer, box_dict, all_boxes_dict, n_init_unpacked_items,
                   packing_locals, place_locals>>

\* place_the_box returns (packed_items, all_boxes_dict, res_vol); packing
\* records the truck
FinishTruck ==
    /\ pc = "box"
    /\ dest_pos > Len(dest_keys)
    /\ pkd' = packed_items
    /\ res_vol' = total_truck_vol - total_box_vol
    /\ pkd_bound' = TRUE
    /\ per_truck_packed' = (i :> truck_record(pkd', res_vol')) @@ per_truck_packed
    /\ per_truck_unpacked' = [t \in DOMAIN per_truck_unpacked \cup {i} |-> all_boxes_dict]
    /\ i' = i + 1
    /\ pc' = "truck"
    /\ UNCHANGED <<inputs, outer, box_dict, all_boxes_dict, n_init_unpacked_items,
                   place_locals, truck_input>>

\* return per_truck_packed
PackingReturns ==
    /\ pc = "truck"
    /\ i > Len(truck_size_dict)
    /\ pc' = "returned"
    /\ UNCHANGED <<inputs, outer, box_dict, all_boxes_dict, n_init_unpacked_items,
                   packing_locals, place_locals, truck_input>>

(***************************************************************************)
(* main_func after packing: summary, js_input_main, truck_size.txt,        *)
(* unpacked_js and unpacked.txt.                                           *)
(***************************************************************************)
\* f"{x:0.3f}" of a whole number x: <<units, thousandths>>
format_3f(x) == <<x, 0>>

\* summary: the return statement is inside the loop over the trucks
summary(base_dict) ==
    LET truck_indx == 0
        tr_name == truck_indx + 1
    IN  << format_3f(base_dict[tr_name].res_vol),
           Cardinality(DOMAIN base_dict[tr_name].pkd) >>

color_list == << "#bada55", "#7fe5f0", "#ff0000", "#ff80ed", "#696969",
                "#133337", "#065535", "#5ac18e", "#f7347a", "#ffd700" >>

\* one record of truck_to_js.txt
js_record(item, ftor_dict) ==
    LET box_corners == item.corners
        l == Cn(box_corners, 7)[1] - Cn(box_corners, 0)[1]
        b == Cn(box_corners, 7)[2] - Cn(box_corners, 0)[2]
        h == Cn(box_corners, 7)[3] - Cn(box_corners, 0)[3]
    IN  << <<l, h, b>>,
           << Cn(box_corners, 0)[1], Cn(box_corners, 0)[3], Cn(box_corners, 0)[2] >>,
           color_list[item.dest],
           ftor_dict[item.type][1],
           item.weight,
           item.dest >>

\* new_dict of js_input_main
js_input_main(truck_packed, ftor_dict) ==
    [tr_num \in 1..Cardinality(DOMAIN truck_packed) |->
        [k \in 1..Cardinality(DOMAIN truck_packed[tr_num].pkd) |->
            js_record(truck_packed[tr_num].pkd[k], ftor_dict)]]

\* dest_dictt of js_input_main: name -> [colour, code]
dest_dictt(d) ==
    [n \in DOMAIN d |-> << color_list[d[n]], d[n] >>]

\* number of occurrences of x in the list
count_of(lst, x) == Cardinality({ k \in 1..Len(lst) : lst[k] = x })

\* list((Counter(a) - Counter(b)).elements()): every value of a, in the order
\* of its first occurrence, as many times as a has it more often than b
RECURSIVE counter_diff_elements(_, _, _)
counter_diff_elements(a, b, k) ==
    IF k > Len(a) THEN <<>>
    ELSE LET x == a[k]
             first == \A j \in 1..(k - 1) : a[j] # x
             n == count_of(a, x) - count_of(b, x)
         IN  (IF first /\ n > 0 THEN [j \in 1..n |-> x] ELSE <<>>)
               \o counter_diff_elements(a, b, k + 1)

RECURSIVE chain(_)
\* itertools.chain(*m)
chain(m) == IF m = <<>> THEN <<>> ELSE Head(m) \o chain(Tail(m))

\* unpacked_js: original is the Box ID column of the raw table, packed_boxes
\* is what truck_to_js.txt holds
unpacked_js(df, packed_boxes) ==
    LET original == [k \in 1..Len(df) |-> df[k][8]]
        packed_list == chain(packed_boxes)
        box_id_packed == [k \in 1..Len(packed_list) |-> packed_list[k][4]]
        res == counter_diff_elements(original, box_id_packed, 1)
    IN  IF res # <<>> \/ Len(original) = Len(box_id_packed) THEN res ELSE original

WriteResults ==
    /\ pc = "returned"
    /\ truck_to_js' = js_input_main(per_truck_packed, f_to_r_dict)
    /\ dest_colors' = dest_dictt(dest_to_dict)
    /\ truck_size_txt' = <<truck_size_dict, n_init_unpacked_items, summary(per_truck_packed)>>
    /\ unpacked_txt' = unpacked_js(box_to_truck, truck_to_js')
    /\ pc' = "written"
    /\ UNCHANGED <<inputs, box_dict, all_boxes_dict, n_init_unpacked_items,
                   packing_locals, place_locals, truck_input,
                   box_types, run, first_result, dest_to_dict, box_to_truck, f_to_r_dict>>

Next ==
    \/ CreateBoxList
    \/ StartTruck
    \/ PackingRaises
    \/ VolumeBreak
    \/ PlaceBox
    \/ SkipBox
    \/ EndDest
    \/ FinishTruck
    \/ PackingReturns

Spec == Init /\ [][Next]_vars

(***************************************************************************)
(* A second invocation on the same input values: a fresh PackingHeuristic  *)
(* on a table equal to the one the first invocation received.  The locals  *)
(* of the finished calls are dead; place_the_box and packing assign theirs *)
(* again before reading them.                                              *)
(***************************************************************************)
Rerun ==
    /\ pc \in {"returned", "raised"}
    /\ run = 1
    /\ run' = 2
    /\ first_result' = [packed |-> per_truck_packed,
                        unpacked |-> per_truck_unpacked,
                        raised |-> (pc = "raised")]
    /\ box_dict' = box_types
    /\ all_boxes_dict' = <<>>
    /\ n_init_unpacked_items' = 0
    /\ i' = 1
    /\ pkd' = <<>>
    /\ res_vol' = 0
    /\ pkd_bound' = FALSE
    /\ per_truck_packed' = <<>>
    /\ per_truck_unpacked' = <<>>
    /\ truck_input' = <<>>
    /\ pc' = "create"
    /\ UNCHANGED <<inputs, box_types, place_locals, dest_to_dict, box_to_truck,
                   f_to_r_dict, truck_to_js, dest_colors, truck_size_txt, unpacked_txt>>

NextRerun == Next \/ Rerun


SpecRerun == Init /\ [][NextRerun]_vars

(***************************************************************************)
(* main_func from the raw table to the files, and its first two calls      *)
(* alone.                                                                  *)
(***************************************************************************)
NextMain == ExportData \/ Next \/ WriteResults

SpecMain == InitMain /\ [][NextMain]_vars

NextExport == ExportData \/ CreateBoxList

SpecExport == InitExport /\ [][NextExport]_vars

(***************************************************************************)
(* Vocabulary of the properties.  Coordinates are integers, so a box is    *)
(* the set of the unit cells it fills.                                     *)
(***************************************************************************)
Lo(item) == item.corners[1]
Hi(item) == item.corners[8]
Cells(item) ==
    { c \in (Lo(item)[1]..(Hi(item)[1] - 1)) \X (Lo(item)[2]..(Hi(item)[2] - 1))
            \X (Lo(item)[3]..(Hi(item)[3] - 1)) : TRUE }
Footprint(item) ==
    (Lo(item)[1]..(Hi(item)[1] - 1)) \X (Lo(item)[2]..(Hi(item)[2] - 1))

Packing == pc \in {"box", "enddest"}

\* the trucks with their current content: the recorded ones and the one
\* being packed
Loads ==
    { [truck |-> t, size |-> truck_size_dict[t], items |-> per_truck_packed[t].pkd] :
        t \in DOMAIN per_truck_packed }
    \cup (IF Packing
          THEN { [truck |-> i, size |-> truck_size_dict[i], items |-> packed_items] }
          ELSE {})

\* C1: in every truck, at every moment, no two distinct placed boxes share
\* interior volume (faces, edges and corners may touch).
NonOverlap ==
    \A ld \in Loads : \A a, b \in DOMAIN ld.items :
        a # b => Cells(ld.items[a]) \cap Cells(ld.items[b]) = {}

\* a truck holds three boxes, two of them face to face along y
NonOverlapWitness ==
    \E ld \in Loads :
        /\ Cardinality(DOMAIN ld.items) >= 3
        /\ \E a, b \in DOMAIN ld.items :
              /\ a # b
              /\ Hi(ld.items[a])[2] = Lo(ld.items[b])[2]
              /\ Footprint(ld.items[a]) # Footprint(ld.items[b])
              /\ Lo(ld.items[a])[1] = Lo(ld.items[b])[1]
              /\ Lo(ld.items[a])[3] = Lo(ld.items[b])[3]

\* C2: every placed box lies inside its truck: corner 0 is >= 0 and corner 7
\* is <= (L, W, H) on every axis.
Containment ==
    \A ld \in Loads : \A a \in DOMAIN ld.items : \A ax \in 1..3 :
        /\ Lo(ld.items[a])[ax] >= 0
        /\ Hi(ld.items[a])[ax] <= ld.size[ax]
        /\ Lo(ld.items[a])[ax] < Hi(ld.items[a])[ax]

\* a box reaches the far wall of its truck on y and another box was refused
\* by the same truck
ContainmentWitness ==
    /\ pc = "returned"
    /\ \E ld \in Loads :
          /\ \E a \in DOMAIN ld.items : Hi(ld.items[a])[2] = ld.size[2]
          /\ \E d \in DOMAIN truck_input[ld.truck] :
                Len(truck_input[ld.truck][d]) > 0
          /\ count_boxes(truck_input[ld.truck], DOMAIN truck_input[ld.truck])
                > Cardinality(DOMAIN ld.items)

(***************************************************************************)
(* Counting helpers of the properties.                                     *)
(***************************************************************************)
RECURSIVE SumFun(_, _)
SumFun(f, S) ==
    IF S = {} THEN 0
    ELSE LET x == CHOOSE x \in S : TRUE IN f[x] + SumFun(f, S \ {x})

\* rows of box type k in a by-destination dictionary (every type when k = 0)
RowsOfType(dict, k) ==
    SumFun([d \in DOMAIN dict |->
              Cardinality({ j \in 1..Len(dict[d]) : k = 0 \/ dict[d][j][4] = k })],
           DOMAIN dict)

\* boxes of type k placed in truck t (every type when k = 0)
PlacedOfType(t, k) ==
    Cardinality({ a \in DOMAIN per_truck_packed[t].pkd :
                    k = 0 \/ per_truck_packed[t].pkd[a].type = k })

PlacedTotal(k) ==
    SumFun([t \in DOMAIN per_truck_packed |-> PlacedOfType(t, k)], DOMAIN per_truck_packed)

\* C3: when packing has returned, the boxes placed over all trucks plus the
\* boxes left in the residual are the boxes supplied, in total and for every
\* box type.
Conservation ==
    pc = "returned" =>
        /\ PlacedTotal(0) + RowsOfType(all_boxes_dict, 0) = n_init_unpacked_items
        /\ \A k \in 1..Len(box_dict) :
              PlacedTotal(k) + RowsOfType(all_boxes_dict, k) = RowsOfType(truck_input[1], k)

\* packing returned; the first truck left boxes to the second, which placed
\* them, and three boxes were supplied
ConservationWitness ==
    /\ pc = "returned"
    /\ n_init_unpacked_items = 3
    /\ \A t \in 1..2 : t \in DOMAIN per_truck_packed /\ PlacedOfType(t, 0) >= 1

(***************************************************************************)
(* Unloading order.                                                        *)
(***************************************************************************)
XOverlap(a, b) == Lo(a)[1] < Hi(b)[1] /\ Lo(b)[1] < Hi(a)[1]
ZOverlap(a, b) == Lo(a)[3] < Hi(b)[3] /\ Lo(b)[3] < Hi(a)[3]
\* p lies on the +y side of c, within c's x and z extents
BehindOverlapping(p, c) == Lo(p)[2] >= Hi(c)[2] /\ XOverlap(p, c) /\ ZOverlap(p, c)

\* C4: a box c is never committed while a box p placed before it in the same
\* truck, of another destination, has corner-0 y >= c's corner-7 y, corner-7
\* x > c's corner-0 x and corner-7 z > c's corner-0 z; hence no box of a
\* higher destination lies on the +y side of a box of a lower destination
\* with overlapping x and z extents.
UnloadReachable ==
    \A ld \in Loads : \A p, c \in DOMAIN ld.items :
        /\ (p < c /\ ld.items[p].dest # ld.items[c].dest) =>
              ~ ( /\ Lo(ld.items[p])[2] >= Hi(ld.items[c])[2]
                  /\ Hi(ld.items[p])[1] > Lo(ld.items[c])[1]
                  /\ Hi(ld.items[p])[3] > Lo(ld.items[c])[3] )
        /\ ld.items[p].dest > ld.items[c].dest =>
              ~ BehindOverlapping(ld.items[p], ld.items[c])

\* three boxes in a truck, the last of a lower destination than the first,
\* committed beside (not behind or in front of) a box of the other destination
UnloadReachableWitness ==
    \E ld \in Loads :
        /\ Cardinality(DOMAIN ld.items) = 3
        /\ ld.items[1].dest > ld.items[3].dest
        /\ \E p \in 1..2 : /\ ld.items[p].dest # ld.items[3].dest
                           /\ Lo(ld.items[p])[2] >= Hi(ld.items[3])[2]
                           /\ ~ XOverlap(ld.items[p], ld.items[3])

\* C5 as stated: a box A of a lower destination never lies behind (on +y of)
\* a box B of a higher destination with overlapping x and z extents.
DestOrderAsStated ==
    \A ld \in Loads : \A A, B \in DOMAIN ld.items :
        ld.items[A].dest < ld.items[B].dest =>
            ~ BehindOverlapping(ld.items[A], ld.items[B])

\* C5 amended: a box B of a higher destination never lies behind (on +y of)
\* a box A of a lower destination with overlapping x and z extents.
DestOrder ==
    \A ld \in Loads : \A A, B \in DOMAIN ld.items :
        ld.items[A].dest < ld.items[B].dest =>
            ~ BehindOverlapping(ld.items[B], ld.items[A])

\* a lower-destination box sits behind a higher-destination box, x and z
\* extents overlapping, in a truck that packing has recorded
DestOrderWitness ==
    \E t \in DOMAIN per_truck_packed : \E A, B \in DOMAIN per_truck_packed[t].pkd :
        /\ per_truck_packed[t].pkd[A].dest < per_truck_packed[t].pkd[B].dest
        /\ BehindOverlapping(per_truck_packed[t].pkd[A], per_truck_packed[t].pkd[B])

(***************************************************************************)
(* Stacking and support.                                                   *)
(***************************************************************************)
\* the Stackable column of the box type of a placed box
IsNonStackable(item) == box_dict[item.type][7] = 1

\* C6: in every truck, for every threshold and load pattern, no placed box
\* has its bottom at the top of a placed non-stackable box while their XY
\* footprints overlap, whichever of the two was placed first.
NonStackRule ==
    \A ld \in Loads : \A n, b \in DOMAIN ld.items :
        (n # b /\ IsNonStackable(ld.items[n]) /\ Lo(ld.items[b])[3] = Hi(ld.items[n])[3])
            => Footprint(ld.items[n]) \cap Footprint(ld.items[b]) = {}

\* the cells of the footprint of box a that lie on the top face of a box
\* placed before it
Supported(items, a) ==
    { c \in Footprint(items[a]) :
        \E b \in DOMAIN items :
            b < a /\ Hi(items[b])[3] = Lo(items[a])[3] /\ c \in Footprint(items[b]) }

\* C7: a placed box on the floor has recorded support 100; a placed box above
\* the floor has at least base_area_thr percent of its footprint on the top
\* faces of the boxes placed before it whose top is at its bottom, and the
\* recorded percentage is that share and lies between base_area_thr and 100.
BaseSupport ==
    \A ld \in Loads : \A a \in DOMAIN ld.items :
        LET item == ld.items[a]
            area == Cardinality(Footprint(item))
            cov == Cardinality(Supported(ld.items, a))
        IN  IF Lo(item)[3] = 0
            THEN item.base = <<100, 1>>
            ELSE /\ 100 * cov >= base_area_thr * area
                 /\ item.base[1] * area = 100 * cov * item.base[2]
                 /\ item.base[1] >= base_area_thr * item.base[2]
                 /\ item.base[1] <= 100 * item.base[2]

\* a box above the floor rests on exactly half of its footprint
BaseSupportWitness ==
    \E ld \in Loads : \E a \in DOMAIN ld.items :
        /\ Lo(ld.items[a])[3] > 0
        /\ 2 * Cardinality(Supported(ld.items, a)) = Cardinality(Footprint(ld.items[a]))
        /\ ld.items[a].base = <<100, 2>>

(***************************************************************************)
(* Naming and order of the placed boxes.                                   *)
(***************************************************************************)
\* C8: in every truck the placed boxes are named box-1 .. box-n without gaps,
\* starting at box-1 in each truck, and along the names the destination codes
\* never increase.
EmissionOrder ==
    \A ld \in Loads :
        /\ DOMAIN ld.items = 1..Cardinality(DOMAIN ld.items)
        /\ \A a, b \in DOMAIN ld.items :
              a < b => ld.items[a].dest >= ld.items[b].dest

\* two recorded trucks: the first holds box-1 and box-2 of destinations 2 and
\* 1, the second starts again at box-1
EmissionOrderWitness ==
    /\ DOMAIN per_truck_packed = {1, 2}
    /\ DOMAIN per_truck_packed[1].pkd = {1, 2}
    /\ per_truck_packed[1].pkd[1].dest = 2
    /\ per_truck_packed[1].pkd[2].dest = 1
    /\ DOMAIN per_truck_packed[2].pkd = {1}

(***************************************************************************)
(* The cascade over the trucks.                                            *)
(***************************************************************************)
RECURSIVE IsSubseq(_, _)
\* a is b with some elements left out
IsSubseq(a, b) ==
    IF a = <<>> THEN TRUE
    ELSE IF b = <<>> THEN FALSE
    ELSE IF Head(a) = Head(b) THEN IsSubseq(Tail(a), Tail(b))
    ELSE IsSubseq(a, Tail(b))

\* the input of truck t is what truck t-1 received less what it placed
CascadeResidual ==
    \A t \in DOMAIN truck_input :
        t > 1 =>
            /\ t - 1 \in DOMAIN truck_input
            /\ t - 1 \in DOMAIN per_truck_packed
            /\ DOMAIN truck_input[t] = DOMAIN truck_input[t - 1]
            /\ \A d \in DOMAIN truck_input[t] :
                  IsSubseq(truck_input[t][d], truck_input[t - 1][d])
            /\ \A k \in 1..Len(box_dict) :
                  RowsOfType(truck_input[t - 1], k)
                      = RowsOfType(truck_input[t], k) + PlacedOfType(t - 1, k)

\* trucks are recorded in the order TRUCK-1, TRUCK-2, ...
CascadeInOrder ==
    /\ DOMAIN per_truck_packed = 1..Cardinality(DOMAIN per_truck_packed)
    /\ DOMAIN truck_input \subseteq 1..(Cardinality(DOMAIN per_truck_packed) + 1)

\* a recorded truck that received no box holds no box
NoStaleRecord ==
    \A t \in DOMAIN per_truck_packed :
        (t \in DOMAIN truck_input /\ RowsOfType(truck_input[t], 0) = 0)
            => DOMAIN per_truck_packed[t].pkd = {}

\* C9: trucks are processed in order, each receives exactly the residual of
\* the one before, and when the run is over every truck whose input held no
\* box is recorded, with zero placements.
CascadeAsStated ==
    /\ CascadeInOrder
    /\ CascadeResidual
    /\ NoStaleRecord
    /\ pc \in {"returned", "raised"} =>
          \A t \in DOMAIN truck_input :
              RowsOfType(truck_input[t], 0) = 0 => t \in DOMAIN per_truck_packed

\* C10: packing returns for every input; with no boxes supplied it returns
\* without raising and without a placement.
PackingTotal ==
    /\ pc # "raised"
    /\ (pc = "returned" /\ n_init_unpacked_items = 0) => PlacedTotal(0) = 0

(***************************************************************************)
(* Effects on the caller's objects.                                        *)
(***************************************************************************)
\* C11: after create_box_list and packing have returned, the caller's box
\* table and the initial unpacked-by-destination map hold what they held
\* before the calls.
InputsPreserved ==
    pc = "returned" =>
        /\ box_dict = box_types
        /\ all_boxes_dict = truck_input[1]

Unresolvable(k) ==
    IF pc = "export"
    THEN strip(box_to_truck[k][6]) \notin DOMAIN dest_to_dict
    ELSE box_to_truck[k][6] = <<>>

\* C13: when a row of the raw table has a destination string that is not a
\* key of dest_to_dict, no box of that input is placed in any truck.
UnresolvedIsFatal ==
    (\E k \in 1..Len(box_to_truck) : Unresolvable(k)) =>
        \A ld \in Loads : DOMAIN ld.items = {}

\* units of Box ID id in the raw table
UnitsSupplied(id) ==
    SumSeq([k \in 1..Len(box_to_truck) |->
               IF box_to_truck[k][8] = id THEN box_to_truck[k][4] ELSE 0])

\* units of Box ID id placed in some truck
UnitsPlaced(id) ==
    SumFun([t \in DOMAIN per_truck_packed |->
               Cardinality({ a \in DOMAIN per_truck_packed[t].pkd :
                               f_to_r_dict[per_truck_packed[t].pkd[a].type][1] = id })],
           DOMAIN per_truck_packed)

\* C14: unpacked.txt lists a Box ID if and only if at least one of its units
\* was placed in no truck.
UnpackedExact ==
    pc = "written" =>
        \A id \in { BoxIds[k] : k \in 1..Len(BoxIds) } :
            (\E k \in 1..Len(unpacked_txt) : unpacked_txt[k] = id)
                <=> (UnitsSupplied(id) > UnitsPlaced(id))

\* C15: the summary on the third line of truck_size.txt is that of the last
\* truck of the result map: its residual volume and its number of boxes.
SummaryOfLastTruck ==
    pc = "written" =>
        LET last == Cardinality(DOMAIN per_truck_packed)
        IN  /\ truck_size_txt[3][1] = <<per_truck_packed[last].res_vol, 0>>
            /\ truck_size_txt[3][2] = Cardinality(DOMAIN per_truck_packed[last].pkd)

(***************************************************************************)
(* Steps of place_the_box, as seen from outside.                           *)
(***************************************************************************)
\* the box at unp_indx was attempted and committed
CommitStep ==
    /\ pc = "box" /\ pc' = "box"
    /\ unp_indx' = unp_indx + 1
    /\ DOMAIN packed_items' = DOMAIN packed_items \cup {Cardinality(DOMAIN packed_items) + 1}
    /\ DOMAIN packed_items' # DOMAIN packed_items

\* the box at unp_indx was attempted and stays unpacked
RefusalStep ==
    /\ pc = "box" /\ pc' = "box"
    /\ unp_indx' = unp_indx + 1
    /\ packed_items' = packed_items

NPlaced(items) == Cardinality(DOMAIN items)

\* C16 as stated: a placement makes the pivot list at most 6 longer (at most
\* 7 added, one removed), a refusal leaves its length, and after k placements
\* in a truck it holds at most 1 + 6k points.
PivotGrowthAsStated ==
    [][ /\ CommitStep => Len(all_pvts') <= Len(all_pvts) + 6
        /\ RefusalStep => Len(all_pvts') = Len(all_pvts)
        /\ pc' = "box" => Len(all_pvts') <= 1 + 6 * NPlaced(packed_items') ]_vars

\* C16 amended: a placement adds the seven corners and at most one synthetic
\* pivot and removes one, so the list gets 6 or 7 longer; a refusal leaves
\* its length; after k placements in a truck it holds at most 1 + 7k points.
PivotGrowth ==
    [][ /\ CommitStep => Len(all_pvts') - Len(all_pvts) \in {6, 7}
        /\ RefusalStep => Len(all_pvts') = Len(all_pvts)
        /\ pc' = "box" => Len(all_pvts') <= 1 + 7 * NPlaced(packed_items') ]_vars

\* two boxes are placed and the second commit appended the synthetic pivot:
\* the list holds 14 points, more than 1 + 6 * 2
PivotGrowthWitness ==
    /\ pc = "box"
    /\ NPlaced(packed_items) = 2
    /\ Len(all_pvts) = 14
    /\ all_pvts[14][1] = 0 /\ all_pvts[14][3] = 0

(***************************************************************************)
(* The normalized table and the exploded boxes.                            *)
(***************************************************************************)
\* row f may stand before row g: (stackability asc, destination desc, width
\* desc, length desc, height desc, weight desc)
DefaultOrdered(f, g) ==
    \/ f[7] < g[7]
    \/ f[7] = g[7] /\ f[6] > g[6]
    \/ f[7] = g[7] /\ f[6] = g[6] /\ f[2] > g[2]
    \/ f[7] = g[7] /\ f[6] = g[6] /\ f[2] = g[2] /\ f[1] > g[1]
    \/ f[7] = g[7] /\ f[6] = g[6] /\ f[2] = g[2] /\ f[1] = g[1] /\ f[3] > g[3]
    \/ f[7] = g[7] /\ f[6] = g[6] /\ f[2] = g[2] /\ f[1] = g[1] /\ f[3] = g[3]
          /\ f[5] >= g[5]

\* the mapped raw rows of the group that F-k names
RowsOfGroup(k) ==
    { j \in 1..Len(box_to_truck) :
        /\ box_to_truck[j][6] = <<box_types[k][6]>>
        /\ box_to_truck[j][7] = <<box_types[k][7]>>
        /\ box_to_truck[j][8] = f_to_r_dict[k][1]
        /\ box_to_truck[j][5] = box_types[k][5] }

\* C17: for a load pattern other than Back / Rear Loading, once export_data
\* and create_box_list have run: the groups stand in the order (stackability
\* asc, destination desc, width desc, length desc, height desc, weight desc);
\* F-k names the k-th group, which gathers the rows of its key with the sum
\* of their quantities; group k is exploded into exactly that many boxes of
\* type index k, all in the list of its destination; and every list keeps
\* the order of the groups, stackable boxes before non-stackable ones.
NormalizedOrder ==
    (pc = "truck" /\ box_to_truck # <<>> /\ load_pattern \notin {"Back", "Rear Loading"}) =>
        /\ \A j, k \in 1..Len(box_types) : j < k => DefaultOrdered(box_types[j], box_types[k])
        /\ DOMAIN f_to_r_dict = 1..Len(box_types)
        /\ \A j, k \in 1..Len(box_types) : j # k => RowsOfGroup(j) \cap RowsOfGroup(k) = {}
        /\ \A j \in 1..Len(box_to_truck) :
              (box_to_truck[j][6] # <<>>) => \E k \in 1..Len(box_types) : j \in RowsOfGroup(k)
        /\ \A k \in 1..Len(box_types) :
              /\ RowsOfGroup(k) # {}
              /\ box_types[k][4] = SumFun([j \in RowsOfGroup(k) |-> box_to_truck[j][4]],
                                          RowsOfGroup(k))
              /\ RowsOfType(all_boxes_dict, k) = box_types[k][4]
              /\ Cardinality({ j \in 1..Len(all_boxes_dict[box_types[k][6]]) :
                                 all_boxes_dict[box_types[k][6]][j]
                                     = [box_types[k] EXCEPT ![4] = k] })
                    = box_types[k][4]
        /\ \A d \in DOMAIN all_boxes_dict :
              \A j, k \in 1..Len(all_boxes_dict[d]) :
                  j < k => /\ all_boxes_dict[d][j][4] <= all_boxes_dict[d][k][4]
                           /\ all_boxes_dict[d][j][7] <= all_boxes_dict[d][k][7]

\* the raw table has a non-stackable row before a stackable row of the same
\* destination; the stackable group is F-1 and the two rows became three boxes
NormalizedOrderWitness ==
    /\ pc = "truck"
    /\ load_pattern = "Side"
    /\ Len(box_to_truck) = 2
    /\ box_to_truck[1][7] = <<1>>
    /\ Len(box_types) = 2
    /\ box_types[1][7] = 0
    /\ box_types[1][6] = box_types[2][6]
    /\ n_init_unpacked_items = 3

(***************************************************************************)
(* First fit.                                                              *)
(***************************************************************************)
\* the box with these dimensions put at pivot q
Candidate(q, dims) == [corners |-> create_box(q, dims)]

\* the five conditions of a placement of row box at pivot q, stated on the
\* extents and cells of the boxes
ValidAt(q, box, items, tsize) ==
    LET c == Candidate(q, SubSeq(box, 1, 3))
        area == Cardinality(Footprint(c))
        cov == Cardinality({ cell \in Footprint(c) :
                               \E b \in DOMAIN items :
                                   /\ Hi(items[b])[3] = Lo(c)[3]
                                   /\ cell \in Footprint(items[b]) })
    IN  /\ \A ax \in 1..3 : Hi(c)[ax] <= tsize[ax]
        /\ ~ \E b \in DOMAIN items :
                /\ items[b].dest # box[6]
                /\ Lo(items[b])[2] >= Hi(c)[2]
                /\ Hi(items[b])[1] > Lo(c)[1]
                /\ Hi(items[b])[3] > Lo(c)[3]
        /\ ~ \E b \in DOMAIN items :
                /\ IsNonStackable(items[b])
                /\ Hi(items[b])[3] = Lo(c)[3]
                /\ Footprint(items[b]) \cap Footprint(c) # {}
        /\ \A b \in DOMAIN items : Cells(items[b]) \cap Cells(c) = {}
        /\ Lo(c)[3] = 0 \/ 100 * cov >= base_area_thr * area

\* rank of a pivot in the order of the load pattern: class first (0 before
\* 1), then the three coordinates of the key
PatternRank(q, pattern) ==
    IF pattern \in {"Side", "Default"}
    THEN IF q[3] > 0 THEN <<0, q[3], q[2], q[1]>> ELSE <<1, q[2], q[1], q[3]>>
    ELSE IF pattern \in {"Back", "Rear Loading"}
    THEN IF q[3] > 0 THEN <<0, q[3], q[1], q[2]>> ELSE <<1, q[1], q[3], q[2]>>
    ELSE IF q[3] > 0 THEN <<1, q[3], q[2], q[1]>> ELSE <<0, q[2], q[1], q[3]>>

RankBefore(a, b) ==
    \E n \in 1..4 : a[n] < b[n] /\ \A m \in 1..(n - 1) : a[m] = b[m]

PvtCount(pvts, x) == Cardinality({ k \in 1..Len(pvts) : pvts[k] = x })

\* a box was attempted: the step from one index of the box loop to the next
AttemptStep == pc = "box" /\ pc' = "box" /\ unp_indx' = unp_indx + 1

\* C18: an attempted box is committed at a pivot that satisfies fit, unload,
\* non-stack, non-overlap and base support and that no valid pivot precedes
\* in the order of the load pattern; when no pivot is valid the placements,
\* the pivot multiset and the placed volume stay as they are.
FirstFit ==
    [][ AttemptStep =>
          LET box == all_boxes_dict[dest_key][unp_indx]
              valid == { k \in 1..Len(all_pvts) :
                           ValidAt(all_pvts[k], box, packed_items, truck_size_dict[i]) }
              new == packed_items'[NPlaced(packed_items) + 1]
          IN  IF valid = {}
              THEN /\ packed_items' = packed_items
                   /\ total_box_vol' = total_box_vol
                   /\ \A k \in 1..Len(all_pvts) :
                         PvtCount(all_pvts', all_pvts[k]) = PvtCount(all_pvts, all_pvts[k])
                   /\ Len(all_pvts') = Len(all_pvts)
              ELSE /\ CommitStep
                   /\ \E k \in valid : all_pvts[k] = Lo(new)
                   /\ \A k \in valid :
                         ~ RankBefore(PatternRank(all_pvts[k], load_pattern),
                                      PatternRank(Lo(new), load_pattern))
                   /\ Hi(new) = Hi(Candidate(Lo(new), SubSeq(box, 1, 3)))
                   /\ new.type = box[4] /\ new.dest = box[6] ]_vars

\* under Side the second box of a 2 x 2 x 2 truck went onto the first (an
\* aerial pivot) although the floor had room, and a later box was refused
FirstFitWitness ==
    /\ pc = "box"
    /\ load_pattern = "Side"
    /\ truck_size_dict[i] = <<2, 2, 2>>
    /\ NPlaced(packed_items) = 2
    /\ Lo(packed_items[2])[3] > 0
    /\ Cardinality(Footprint(packed_items[1])) < 4
    /\ unp_indx > Len(used_unp_indx) + 1

(***************************************************************************)
(* The pivot list.                                                         *)
(***************************************************************************)
\* the largest y among the points of a pivot list
MaxY(pvts) ==
    CHOOSE y \in { pvts[k][2] : k \in 1..Len(pvts) } : \A k \in 1..Len(pvts) : pvts[k][2] <= y

\* lst without one occurrence of x
WithoutOne(lst, x) ==
    LET k == CHOOSE k \in 1..Len(lst) : lst[k] = x
    IN  SubSeq(lst, 1, k - 1) \o SubSeq(lst, k + 1, Len(lst))

\* two lists hold the same points the same number of times
SameBag(a, b) ==
    /\ Len(a) = Len(b)
    /\ \A k \in 1..Len(a) : PvtCount(a, a[k]) = PvtCount(b, a[k])

\* C19: the pivot list of a truck starts as [(0,0,0)]; a commit at pivot p
\* takes one occurrence of p out, adds the seven non-origin corners of the
\* box, and then appends (0, y_max, 0), y_max the largest y of the list so
\* far, if and only if the list lacks it; so after a commit the list has
\* (0, y_max, 0) for its own largest y, and no coordinate is negative.
PivotUpdate ==
    [][ /\ (pc = "truck" /\ pc' = "box") => all_pvts' = << <<0, 0, 0>> >>
        /\ CommitStep =>
              \E new \in {packed_items'[NPlaced(packed_items) + 1]} :
                /\ PvtCount(all_pvts, Lo(new)) >= 1
                /\ \E mid \in {WithoutOne(all_pvts, Lo(new)) \o SubSeq(new.corners, 2, 8)} :
                   \E syn \in {<<0, MaxY(mid), 0>>} :
                     IF PvtCount(mid, syn) = 0
                     THEN /\ SameBag(all_pvts', Append(mid, syn))
                          /\ all_pvts'[Len(all_pvts')] = syn
                     ELSE SameBag(all_pvts', mid)
                /\ PvtCount(all_pvts', <<0, MaxY(all_pvts'), 0>>) >= 1
        /\ pc' = "box" =>
              \A k \in 1..Len(all_pvts') : \A ax \in 1..3 : all_pvts'[k][ax] >= 0 ]_vars

\* a commit has just appended the synthetic pivot: it is the last point of
\* the list, it is there once, and no corner of a placed box lies on it
PivotUpdateWitness ==
    /\ pc = "box"
    /\ NPlaced(packed_items) >= 2
    /\ all_pvts[Len(all_pvts)] = <<0, MaxY(all_pvts), 0>>
    /\ PvtCount(all_pvts, <<0, MaxY(all_pvts), 0>>) = 1
    /\ \A a \in DOMAIN packed_items : \A k \in 1..8 :
          packed_items[a].corners[k] # <<0, MaxY(all_pvts), 0>>

(***************************************************************************)
(* Volume.                                                                 *)
(***************************************************************************)
\* volume of the placed boxes of a truck, counted in unit cells
PlacedVolume(items) ==
    SumFun([a \in DOMAIN items |-> Cardinality(Cells(items[a]))], DOMAIN items)

TruckVolume(size) == size[1] * size[2] * size[3]

\* the box at unp_indx would take the placed volume over the truck volume
Exceeds ==
    /\ pc = "box"
    /\ dest_pos <= Len(dest_keys)
    /\ unp_indx <= Len(all_boxes_dict[dest_key])
    /\ PlacedVolume(packed_items)
          + Cardinality(Cells(Candidate(<<0, 0, 0>>, SubSeq(all_boxes_dict[dest_key][unp_indx], 1, 3))))
          > TruckVolume(truck_size_dict[i])

\* b ends with the elements of a from position k on
EndsWithFrom(b, a, k) ==
    /\ Len(b) >= Len(a) - k + 1
    /\ SubSeq(b, Len(b) - (Len(a) - k), Len(b)) = SubSeq(a, k, Len(a))

====
